---- MODULE Spec2Model ----
(***************************************************************************)
(* Model of sf-symbols-svg (src/src/index.ts): the fit transform computed  *)
(* by generateSymbolSvg, the file naming of createSvgFilename and the      *)
(* generation loop of makeSvgs.                                            *)
(*                                                                         *)
(* JavaScript numbers are IEEE-754 binary64 values.  They are modelled bit *)
(* for bit: a finite non-zero number is sign * mantissa * 2^exponent with  *)
(* a 53-bit mantissa, and every arithmetic operator rounds its exact       *)
(* result to nearest, ties to even.  Mantissas do not fit the integers of  *)
(* the model checker, so they are kept as little-endian sequences of       *)
(* 15-bit limbs.  Subnormal numbers and the sign of zero are not           *)
(* modelled: no input of the bounded sets below comes near 2^-1022, and    *)
(* -0 and 0 compare equal and print alike ("0").                           *)
(***************************************************************************)
EXTENDS Integers, Sequences, FiniteSets, TLC

----------------------------------------------------------------------------
(* Natural numbers of arbitrary size: sequences of limbs, least            *)
(* significant first, no leading zero limb; zero is the empty sequence.    *)

LimbBits == 15
LimbBase == 32768

RECURSIVE Pow2(_)
Pow2(n) == IF n = 0 THEN 1 ELSE 2 * Pow2(n - 1)

Max2(a, b) == IF a >= b THEN a ELSE b
Min2(a, b) == IF a <= b THEN a ELSE b

Limb(a, i) == IF i >= 1 /\ i <= Len(a) THEN a[i] ELSE 0

RECURSIVE BTrim(_)
BTrim(a) ==
  IF a = <<>> THEN a
  ELSE IF a[Len(a)] = 0 THEN BTrim(SubSeq(a, 1, Len(a) - 1)) ELSE a

RECURSIVE BFromNat(_)
BFromNat(n) ==
  IF n = 0 THEN <<>> ELSE <<n % LimbBase>> \o BFromNat(n \div LimbBase)

RECURSIVE BCmpFrom(_, _, _)
BCmpFrom(a, b, i) ==
  IF i = 0 THEN 0
  ELSE IF Limb(a, i) > Limb(b, i) THEN 1
  ELSE IF Limb(a, i) < Limb(b, i) THEN -1
  ELSE BCmpFrom(a, b, i - 1)

BCmp(a, b) == BCmpFrom(a, b, Max2(Len(a), Len(b)))

RECURSIVE BAddFrom(_, _, _, _)
BAddFrom(a, b, i, carry) ==
  IF i > Len(a) /\ i > Len(b)
  THEN (IF carry = 0 THEN <<>> ELSE <<carry>>)
  ELSE LET t == Limb(a, i) + Limb(b, i) + carry
       IN  <<t % LimbBase>> \o BAddFrom(a, b, i + 1, t \div LimbBase)

BAdd(a, b) == BAddFrom(a, b, 1, 0)

RECURSIVE BSubFrom(_, _, _, _)
BSubFrom(a, b, i, borrow) ==
  IF i > Len(a) THEN <<>>
  ELSE LET t == Limb(a, i) - Limb(b, i) - borrow
       IN  IF t < 0
           THEN <<t + LimbBase>> \o BSubFrom(a, b, i + 1, 1)
           ELSE <<t>> \o BSubFrom(a, b, i + 1, 0)

\* a - b for a >= b
BSub(a, b) == BTrim(BSubFrom(a, b, 1, 0))

RECURSIVE BMulLimbFrom(_, _, _, _)
BMulLimbFrom(a, d, i, carry) ==
  IF i > Len(a)
  THEN (IF carry = 0 THEN <<>> ELSE <<carry>>)
  ELSE LET t == a[i] * d + carry
       IN  <<t % LimbBase>> \o BMulLimbFrom(a, d, i + 1, t \div LimbBase)

\* a * d for one limb d
BMulLimb(a, d) == BTrim(BMulLimbFrom(a, d, 1, 0))

Zeros(n) == [i \in 1..n |-> 0]

RECURSIVE BMulFrom(_, _, _)
BMulFrom(a, b, i) ==
  IF i > Len(b) THEN <<>>
  ELSE BAdd(BTrim(Zeros(i - 1) \o BMulLimb(a, b[i])), BMulFrom(a, b, i + 1))

BMul(a, b) == BMulFrom(a, b, 1)

\* a * 2^k
BShl(a, k) ==
  IF a = <<>> THEN a
  ELSE Zeros(k \div LimbBits) \o BMulLimb(a, Pow2(k % LimbBits))

RECURSIVE BDivLimbFrom(_, _, _, _)
BDivLimbFrom(a, d, i, rem) ==
  IF i = 0 THEN <<>>
  ELSE LET t == rem * LimbBase + a[i]
       IN  BDivLimbFrom(a, d, i - 1, t % d) \o <<t \div d>>

BDropLimbs(a, q) == IF q >= Len(a) THEN <<>> ELSE SubSeq(a, q + 1, Len(a))
BDivLimb(a, d) == BTrim(BDivLimbFrom(a, d, Len(a), 0))

\* floor(a / 2^k)
BShr(a, k) == BDivLimb(BDropLimbs(a, k \div LimbBits), Pow2(k % LimbBits))

RECURSIVE BitLen(_)
BitLen(n) == IF n = 0 THEN 0 ELSE 1 + BitLen(n \div 2)

\* number of significant bits of a
BLen(a) == IF a = <<>> THEN 0 ELSE LimbBits * (Len(a) - 1) + BitLen(a[Len(a)])

BOdd(a) == a # <<>> /\ a[1] % 2 = 1

----------------------------------------------------------------------------
(* IEEE-754 binary64, the number type of every arithmetic expression of    *)
(* generateSymbolSvg.  k is the class of the value: "zero", "fin" (finite, *)
(* non-zero: s * m * 2^e with 2^52 <= m < 2^53), "inf" or "nan".           *)

Precision == 53
MaxExponent == 1023

FZero == [k |-> "zero", s |-> 1, m |-> <<>>, e |-> 0]
FNaN == [k |-> "nan", s |-> 1, m |-> <<>>, e |-> 0]
FInf(s) == [k |-> "inf", s |-> s, m |-> <<>>, e |-> 0]

FFin(s, m, e) ==
  IF e + Precision - 1 > MaxExponent THEN FInf(s)
  ELSE [k |-> "fin", s |-> s, m |-> m, e |-> e]

\* q2 * 2^e, where rounding up may have carried q2 to 2^53
FNormal(s, q2, e) ==
  IF BLen(q2) > Precision THEN FFin(s, BShr(q2, 1), e + 1) ELSE FFin(s, q2, e)

\* q is M without its last k bits and c compares those bits with one half:
\* round to nearest, ties to even
FRoundUp(s, q, e, c) ==
  FNormal(s, IF c = 1 \/ (c = 0 /\ BOdd(q)) THEN BAdd(q, <<1>>) ELSE q, e)

FRoundCut(s, M, e, k, q) ==
  FRoundUp(s, q, e + k, BCmp(BSub(M, BShl(q, k)), BShl(<<1>>, k - 1)))

\* M has L bits
FRoundLen(s, M, e, L) ==
  IF L <= Precision
  THEN FFin(s, BShl(M, Precision - L), e - (Precision - L))
  ELSE FRoundCut(s, M, e, L - Precision, BShr(M, L - Precision))

\* the binary64 value nearest to s * M * 2^e (M exact), ties to even
FRound(s, M, e) == IF M = <<>> THEN FZero ELSE FRoundLen(s, M, e, BLen(M))

\* the number written as the integer literal n
FInt(n) ==
  FRound(IF n >= 0 THEN 1 ELSE -1, BFromNat(IF n >= 0 THEN n ELSE -n), 0)

FNeg(a) == IF a.k \in {"fin", "inf"} THEN [a EXCEPT !.s = -a.s] ELSE a

\* a * b
FMul(a, b) ==
  IF a.k = "nan" \/ b.k = "nan" THEN FNaN
  ELSE IF a.k = "inf" \/ b.k = "inf"
  THEN (IF a.k = "zero" \/ b.k = "zero" THEN FNaN ELSE FInf(a.s * b.s))
  ELSE IF a.k = "zero" \/ b.k = "zero" THEN FZero
  ELSE FRound(a.s * b.s, BMul(a.m, b.m), a.e + b.e)

RECURSIVE QuotientDigit(_, _, _, _)
\* the largest d + x < 2^(bit+1), x >= 0, with (d + x) * D <= N
QuotientDigit(N, D, bit, d) ==
  IF bit < 0 THEN d
  ELSE IF BCmp(BMulLimb(D, d + Pow2(bit)), N) <= 0
  THEN QuotientDigit(N, D, bit - 1, d + Pow2(bit))
  ELSE QuotientDigit(N, D, bit - 1, d)

RECURSIVE DivLimbs(_, _, _)
\* the quotient digit d of N by D, then the digits of the remainder
DivPrepend(d, rest) == <<rest[1] \o <<d>>, rest[2]>>
DivStep(N, D, n, d) ==
  DivPrepend(d, DivLimbs(BSub(N, BMulLimb(D, d)), D, n - 1))
DivDigit(N, D, n) == DivStep(N, D, n, QuotientDigit(N, D, LimbBits - 1, 0))

\* long division for R < D: <<the n limbs of floor(R * LimbBase^n / D),
\* the remainder>>
DivLimbs(R, D, n) ==
  IF n = 0 THEN <<<<>>, R>> ELSE DivDigit(BShl(R, LimbBits), D, n)

QuotientLimbs == 4

\* the quotient of the mantissas: qr is DivLimbs of the remainder, lead the
\* bit before it; the last bit says whether the division left a remainder
FQuotient(lead, qr) ==
  BAdd(BShl(BTrim(qr[1] \o <<lead>>), 1),
       IF qr[2] = <<>> THEN <<>> ELSE <<1>>)

FDivFinite(a, b, ge) ==
  FRound(a.s * b.s,
         FQuotient(IF ge THEN 1 ELSE 0,
                   DivLimbs(IF ge THEN BSub(a.m, b.m) ELSE a.m, b.m,
                            QuotientLimbs)),
         a.e - b.e - (QuotientLimbs * LimbBits + 1))

\* a / b
FDiv(a, b) ==
  IF a.k = "nan" \/ b.k = "nan" THEN FNaN
  ELSE IF a.k = "inf"
  THEN (IF b.k = "inf" THEN FNaN ELSE FInf(a.s * b.s))
  ELSE IF b.k = "inf" THEN FZero
  ELSE IF b.k = "zero"
  THEN (IF a.k = "zero" THEN FNaN ELSE FInf(a.s))
  ELSE IF a.k = "zero" THEN FZero
  ELSE FDivFinite(a, b, BCmp(a.m, b.m) >= 0)

\* A and B are the mantissas of a and b at the common exponent e, and c
\* compares them
FAddAligned(a, b, e, A, B, c) ==
  IF a.s # b.s /\ c = 0 THEN FZero
  ELSE FRound(IF a.s = b.s \/ c = 1 THEN a.s ELSE b.s,
              IF a.s = b.s THEN BAdd(A, B)
              ELSE IF c = 1 THEN BSub(A, B) ELSE BSub(B, A),
              e)

FAddShifted(a, b, e, A, B) == FAddAligned(a, b, e, A, B, BCmp(A, B))

FAddFinite(a, b, e) ==
  FAddShifted(a, b, e, BShl(a.m, a.e - e), BShl(b.m, b.e - e))

\* a + b
FAdd(a, b) ==
  IF a.k = "nan" \/ b.k = "nan" THEN FNaN
  ELSE IF a.k = "inf"
  THEN (IF b.k = "inf" /\ b.s # a.s THEN FNaN ELSE a)
  ELSE IF b.k = "inf" THEN b
  ELSE IF a.k = "zero" THEN b
  ELSE IF b.k = "zero" THEN a
  \* an operand below a quarter of the other's last place rounds away
  ELSE IF a.e - b.e > Precision + 3 THEN a
  ELSE IF b.e - a.e > Precision + 3 THEN b
  ELSE FAddFinite(a, b, Min2(a.e, b.e))

\* a - b
FSub(a, b) == FAdd(a, FNeg(b))

\* the sign of a: -1, 0 or 1 (0 also for NaN, which compares with nothing)
FSign(a) == IF a.k \in {"fin", "inf"} THEN a.s ELSE 0

\* a > b, a >= b, a === b as JavaScript compares numbers
FGt(a, b) == FSign(FSub(a, b)) = 1
FEq(a, b) == a.k # "nan" /\ b.k # "nan" /\ a = b
FGe(a, b) == FGt(a, b) \/ FEq(a, b)
FFinite(a) == a.k \in {"zero", "fin"}

FAbs(a) == IF a.k \in {"fin", "inf"} THEN [a EXCEPT !.s = 1] ELSE a

----------------------------------------------------------------------------
(* A font answers a character with a glyph: "notdef" when the font has no  *)
(* glyph for it (charToGlyphIndex returns 0), "error" when opentype.js     *)
(* throws while building the path, "path" with the bounding box of the     *)
(* outline otherwise.                                                      *)

NotDef == [kind |-> "notdef", x1 |-> 0, y1 |-> 0, x2 |-> 0, y2 |-> 0]
Broken == [kind |-> "error", x1 |-> 0, y1 |-> 0, x2 |-> 0, y2 |-> 0]
Outline(x1, y1, x2, y2) ==
  [kind |-> "path", x1 |-> x1, y1 |-> y1, x2 |-> x2, y2 |-> y2]

\* the result "null" of generateSymbolSvg
Null == [null |-> TRUE]

\* the bounding box of the path, as numbers
getBoundingBox(glyph) ==
  [x1 |-> FInt(glyph.x1), y1 |-> FInt(glyph.y1),
   x2 |-> FInt(glyph.x2), y2 |-> FInt(glyph.y2)]

\* availableSize with the operands exchanged: padding * 2 - fontSize
availableSizeNegated(fontSize, padding) ==
  FSub(FMul(padding, FInt(2)), fontSize)

\* fontSize - padding * 2
availableSize(fontSize, padding) == FSub(fontSize, FMul(padding, FInt(2)))

\* the test of the branch that picks the limiting dimension
widthLimits(symbolWidth, symbolHeight, availableWidth, availableHeight) ==
  FGt(FDiv(symbolWidth, availableWidth), FDiv(symbolHeight, availableHeight))

\* fitScale with the two branches exchanged
fitScaleSwapped(symbolWidth, symbolHeight, availableWidth, availableHeight) ==
  IF widthLimits(symbolWidth, symbolHeight, availableWidth, availableHeight)
  THEN FDiv(availableHeight, symbolHeight)
  ELSE FDiv(availableWidth, symbolWidth)

\* let scale
fitScale(symbolWidth, symbolHeight, availableWidth, availableHeight) ==
  IF widthLimits(symbolWidth, symbolHeight, availableWidth, availableHeight)
  THEN FDiv(availableWidth, symbolWidth)
  ELSE FDiv(availableHeight, symbolHeight)

\* fitTranslate without the correction for the origin of the glyph
fitTranslateNoOrigin(fontSize, scaled, min, scale) ==
  FDiv(FSub(fontSize, scaled), FInt(2))

\* fitTranslate without the halving that centers the glyph
fitTranslateNoHalf(fontSize, scaled, min, scale) ==
  FSub(FSub(fontSize, scaled), FMul(min, scale))

\* (fontSize - scaled) / 2 - min * scale
fitTranslate(fontSize, scaled, min, scale) ==
  FSub(FDiv(FSub(fontSize, scaled), FInt(2)), FMul(min, scale))

\* const transformMatrix, given scale
transformMatrix(fontSize, bbox, symbolWidth, symbolHeight, scale) ==
  <<scale, FZero, FZero, scale,
    fitTranslate(fontSize, FMul(symbolWidth, scale), bbox.x1, scale),
    fitTranslate(fontSize, FMul(symbolHeight, scale), bbox.y1, scale)>>

\* the transform, given symbolWidth, symbolHeight and the available area
fitWithin(fontSize, bbox, symbolWidth, symbolHeight, availableWidth, availableHeight) ==
  transformMatrix(fontSize, bbox, symbolWidth, symbolHeight,
                  fitScale(symbolWidth, symbolHeight,
                           availableWidth, availableHeight))

\* the transform generateSymbolSvg computes for a bounding box
fitTransform(fontSize, padding, bbox) ==
  fitWithin(fontSize, bbox, FSub(bbox.x2, bbox.x1), FSub(bbox.y2, bbox.y1),
            availableSize(fontSize, padding), availableSize(fontSize, padding))

\* a document whose width and height are twice the canvas
svgDocumentDoubled(name, char, size, matrix) ==
  [viewBox |-> <<0, 0, size, size>>, width |-> 2 * size, height |-> 2 * size,
   title |-> name, transform |-> matrix, d |-> char]

\* the document: the attributes of <svg>, the title, the path
svgDocument(name, char, size, matrix) ==
  [viewBox |-> <<0, 0, size, size>>, width |-> size, height |-> size,
   title |-> name, transform |-> matrix, d |-> char]

\* options is [fontSize, padding]; the numbers are given as integers
generateSymbolSvg(font, char, name, options) ==
  IF font[char].kind = "notdef" THEN Null
  ELSE IF font[char].kind = "error" THEN Null
  ELSE svgDocument(name, char, options.fontSize,
                   fitTransform(FInt(options.fontSize), FInt(options.padding),
                                getBoundingBox(font[char])))

----------------------------------------------------------------------------
(* File names.  A string is a sequence of one-character strings.           *)

LowerLetters ==
  <<"a", "b", "c", "d", "e", "f", "g", "h", "i", "j", "k", "l", "m",
    "n", "o", "p", "q", "r", "s", "t", "u", "v", "w", "x", "y", "z">>
UpperLetters ==
  <<"A", "B", "C", "D", "E", "F", "G", "H", "I", "J", "K", "L", "M",
    "N", "O", "P", "Q", "R", "S", "T", "U", "V", "W", "X", "Y", "Z">>
Digits == {"0", "1", "2", "3", "4", "5", "6", "7", "8", "9"}

Range(f) == {f[i] : i \in DOMAIN f}

\* a lowercasing that was left out
toLowerCaseIdentity(c) == c

\* String.prototype.toLowerCase on one character
toLowerCase(c) ==
  IF c \in Range(UpperLetters)
  THEN LowerLetters[CHOOSE i \in DOMAIN UpperLetters : UpperLetters[i] = c]
  ELSE c

\* the class [^a-z0-9\.] under the flag i
unsafeChar(c) ==
  c \notin Range(LowerLetters) \cup Range(UpperLetters) \cup Digits \cup {"."}

\* the class [^a-z0-9] instead: the dot is replaced as well
createSafeFilenameNoDot(name) ==
  [i \in 1..Len(name) |->
     toLowerCase(IF unsafeChar(name[i]) \/ name[i] = "." THEN "_"
                 ELSE name[i])]

createSafeFilename(name) ==
  [i \in 1..Len(name) |->
     toLowerCase(IF unsafeChar(name[i]) THEN "_" ELSE name[i])]

Regular == <<"r", "e", "g", "u", "l", "a", "r">>
SvgExt == <<".", "s", "v", "g">>

\* the suffix without the test for "regular"
createSvgFilenameAlwaysSuffix(name, weight) ==
  createSafeFilename(name) \o <<"-">> \o weight \o SvgExt

createSvgFilename(name, weight) ==
  LET safeName == createSafeFilename(name) IN
  IF weight = Regular
  THEN safeName \o SvgExt
  ELSE safeName \o <<"-">> \o weight \o SvgExt

----------------------------------------------------------------------------
(* The generation loop of makeSvgs.                                        *)

VARIABLES
  fontSize,      \* option fontSize (the canvas size)
  padding,       \* option padding
  names,         \* the icon names to process
  symbolsData,   \* the two-character tokens, aligned with names by index
  validFonts,    \* the loaded fonts: records [weight, font], in order
  namesIndex,    \* the outer loop counter (0-based)
  fontIndex,     \* the position of the inner loop in validFonts (0-based)
  lastCall,      \* the latest call of generateSymbolSvg and its result
  files,         \* the output directory: file name -> contents
  writes,        \* the calls of writeFile so far, in order
  pc,            \* the position of the run: "generate" while the loop runs,
                 \* "done" after it
  flags,         \* cli.flags: weight, fontsDir, sfVersion, sourcesDir, iconsList
  disk,          \* the file system the run reads
  weights,       \* the requested weights, after the handling of "all"
  availableVersions, \* the versions detected in the sources directory
  version,       \* the version of the run
  fonts,         \* the promises of the font loads, in request order
  outputCreated, \* fs.mkdirSync(PATHS.SVG_OUTPUT) has run
  thrown,        \* the error makeSvgs was rejected with, "" for none
  exitCode       \* the exit code of the process, -1 while it runs

\* the state of the run besides the generation loop
setup == <<flags, disk, weights, availableVersions, version, fonts,
           outputCreated, thrown, exitCode>>

vars == <<fontSize, padding, names, symbolsData, validFonts, namesIndex,
          fontIndex, lastCall, files, writes, pc, setup>>

NoCall == [made |-> FALSE]

\* symbolsData[namesIndex], undefined past the end of the array
charAt(i) == IF i < Len(symbolsData) THEN symbolsData[i + 1] ELSE ""

\* fs.mkdirSync + fs.writeFileSync: the file is created or replaced
writeFile(filePath, contents) ==
  [f \in DOMAIN files \cup {filePath} |->
     IF f = filePath THEN contents ELSE files[f]]

\* for (const ... of validFonts) reaches its end, or moves on by one
NextPair ==
  IF fontIndex + 1 >= Len(validFonts)
  THEN namesIndex' = namesIndex + 1 /\ fontIndex' = 0
  ELSE fontIndex' = fontIndex + 1 /\ UNCHANGED namesIndex

\* if (!name) continue; if (!char) continue
SkipName ==
  /\ pc = "generate"
  /\ namesIndex < Len(names)
  /\ names[namesIndex + 1] = <<>> \/ charAt(namesIndex) = ""
  /\ namesIndex' = namesIndex + 1
  /\ UNCHANGED <<fontSize, padding, names, symbolsData, validFonts,
                 fontIndex, lastCall, files, writes, pc, setup>>

\* what the inner loop does with svgContent: continue, or writeFile
Emit(name, weight, glyph, svgContent, svgFilename) ==
  /\ lastCall' = [made |-> TRUE, name |-> name, weight |-> weight,
                  glyph |-> glyph, svgContent |-> svgContent,
                  svgFilename |-> svgFilename]
  /\ IF svgContent = Null
     THEN UNCHANGED <<files, writes>>
     ELSE /\ files' = writeFile(svgFilename, svgContent)
          /\ writes' = Append(writes, [name |-> name, weight |-> weight,
                                       path |-> svgFilename])

\* the body of the inner loop for one name, character and font
Render(name, char, f) ==
  Emit(name, f.weight, f.font[char],
       generateSymbolSvg(f.font, char, name,
                         [fontSize |-> fontSize, padding |-> padding]),
       createSvgFilename(name, f.weight))

\* one turn of the inner loop: generateSymbolSvg, createSvgFilename, writeFile
RenderPair ==
  /\ pc = "generate"
  /\ namesIndex < Len(names)
  /\ names[namesIndex + 1] # <<>>
  /\ charAt(namesIndex) # ""
  /\ fontIndex < Len(validFonts)
  /\ Render(names[namesIndex + 1], charAt(namesIndex),
            validFonts[fontIndex + 1])
  /\ NextPair
  /\ UNCHANGED <<fontSize, padding, names, symbolsData, validFonts, pc,
                 setup>>

\* the loop over names ends: "Done! Generated SVG files in ..."
Finish ==
  /\ pc = "generate"
  /\ namesIndex >= Len(names)
  /\ pc' = "done"
  /\ UNCHANGED <<fontSize, padding, names, symbolsData, validFonts,
                 namesIndex, fontIndex, lastCall, files, writes, setup>>

Next == SkipName \/ RenderPair \/ Finish

----------------------------------------------------------------------------
(* The versions of the sources directory.  The name of a directory entry   *)
(* is a sequence of characters over digits, "." and "a"; a part that is    *)
(* not a numeral converts to NaN, which "|| 0" turns into 0.               *)

DigitsInOrder == <<"0", "1", "2", "3", "4", "5", "6", "7", "8", "9">>
digitValue(c) == (CHOOSE i \in 1..10 : DigitsInOrder[i] = c) - 1

RECURSIVE numberOrZeroFrom(_, _, _)
\* Number(part) || 0 for the characters of part from i on, given the value
\* acc of the characters before i
numberOrZeroFrom(part, i, acc) ==
  IF i > Len(part) THEN acc
  ELSE IF part[i] \notin Digits THEN 0
  ELSE numberOrZeroFrom(part, i + 1, acc * 10 + digitValue(part[i]))

\* Number(part) || 0
numberOrZero(part) == numberOrZeroFrom(part, 1, 0)

RECURSIVE splitFrom(_, _, _, _)
\* name.split("."), for the characters of name from i on, given the parts
\* before the last "." and the part cur after it
splitFrom(name, i, parts, cur) ==
  IF i > Len(name) THEN Append(parts, cur)
  ELSE IF name[i] = "." THEN splitFrom(name, i + 1, Append(parts, cur), <<>>)
  ELSE splitFrom(name, i + 1, parts, Append(cur, name[i]))

\* name.split(".")
split(name) == splitFrom(name, 1, <<>>, <<>>)

\* partsA[i] || 0, with i counted from 1
partOrZero(parts, i) == IF i <= Len(parts) THEN numberOrZero(parts[i]) ELSE 0

RECURSIVE compareFromAscending(_, _, _)
\* a comparator that returns partA - partB
compareFromAscending(partsA, partsB, i) ==
  IF i > Max2(Len(partsA), Len(partsB)) THEN 0
  ELSE IF partOrZero(partsA, i) # partOrZero(partsB, i)
       THEN partOrZero(partsA, i) - partOrZero(partsB, i)
       ELSE compareFromAscending(partsA, partsB, i + 1)

RECURSIVE compareFrom(_, _, _)
\* the loop of the comparator from the index i on
compareFrom(partsA, partsB, i) ==
  IF i > Max2(Len(partsA), Len(partsB)) THEN 0
  ELSE IF partOrZero(partsA, i) # partOrZero(partsB, i)
       THEN partOrZero(partsB, i) - partOrZero(partsA, i)
       ELSE compareFrom(partsA, partsB, i + 1)

\* the comparator given to sort: negative when a goes before b
compareVersions(a, b) == compareFrom(split(a), split(b), 1)

RECURSIVE insertVersion(_, _, _)
\* sorted with v put after the last element that does not go after it
insertVersion(sorted, v, i) ==
  IF i = 0 \/ compareVersions(sorted[i], v) <= 0
  THEN SubSeq(sorted, 1, i) \o <<v>> \o SubSeq(sorted, i + 1, Len(sorted))
  ELSE insertVersion(sorted, v, i - 1)

RECURSIVE sortVersionsUpTo(_, _)
\* Array.prototype.sort with the comparator (a stable sort) of the first n
\* elements of list
sortVersionsUpTo(list, n) ==
  IF n = 0 THEN <<>>
  ELSE insertVersion(sortVersionsUpTo(list, n - 1), list[n],
                     Len(sortVersionsUpTo(list, n - 1)))

sortVersions(list) == sortVersionsUpTo(list, Len(list))

\* fs.readdirSync(sourcesDir) of a directory that cannot be read throws
Unreadable == [readable |-> FALSE, items |-> <<>>]
\* the directory with the entries items: records [name, isDirectory]
Listing(items) == [readable |-> TRUE, items |-> items]

\* item.isDirectory() && !item.name.startsWith(".")
versionFolder(item) ==
  item.isDirectory /\ ~(Len(item.name) > 0 /\ item.name[1] = ".")

\* .filter(...).map((item) => item.name)
folderNames(items) ==
  LET kept == SelectSeq(items, versionFolder)
  IN [i \in 1..Len(kept) |-> kept[i].name]

\* the result of detectAvailableVersions: the sorted versions, or the error
\* thrown when the directory cannot be read or has no version folder
detectAvailableVersions(listing) ==
  IF ~listing.readable \/ folderNames(listing.items) = <<>>
  THEN [threw |-> TRUE, versions |-> <<>>]
  ELSE [threw |-> FALSE, versions |-> sortVersions(folderNames(listing.items))]

\* getDefaultVersions: the versions of the default sources directory, or []
getDefaultVersions(listing) == detectAvailableVersions(listing).versions

\* const DEFAULT_VERSION: a string, "" when there is no version
DEFAULT_VERSION(listing) ==
  IF Len(getDefaultVersions(listing)) > 0
  THEN getDefaultVersions(listing)[1]
  ELSE <<>>

----------------------------------------------------------------------------
(* The fonts directory and the promises of the font loads.                 *)

\* String.prototype.toUpperCase on one character
toUpperCase(c) ==
  IF c \in Range(LowerLetters)
  THEN UpperLetters[CHOOSE i \in DOMAIN LowerLetters : LowerLetters[i] = c]
  ELSE c

\* weight.charAt(0).toUpperCase() + weight.slice(1): what stands between
\* "SF-Pro-Text-" and ".otf" in the name of the font file
fontName(weight) ==
  IF weight = <<>> THEN <<>> ELSE <<toUpperCase(weight[1])>> \o Tail(weight)

\* findFontFile: the font file of the weight is a file of the directory;
\* fontFiles maps the names of its font files to [ok, font]
findFontFile(fontFiles, weight) == fontName(weight) \in DOMAIN fontFiles

\* a promise of the array given to Promise.all
Pending == [state |-> "pending", value |-> Null]
Fulfilled(value) == [state |-> "fulfilled", value |-> value]

\* the promise of the async callback of weights.map when it returns: already
\* fulfilled with null without a font file, waiting for opentype.load else
loadStarted(fontFiles, weight) ==
  IF findFontFile(fontFiles, weight) THEN Pending ELSE Fulfilled(Null)

\* the promise once opentype.load has settled: { weight, font }, or null
\* when it threw
loadSettled(fontFiles, weight) ==
  IF fontFiles[fontName(weight)].ok
  THEN Fulfilled([weight |-> weight, font |-> fontFiles[fontName(weight)].font])
  ELSE Fulfilled(Null)

----------------------------------------------------------------------------
(* Inputs.                                                                 *)

\* const FONT_WEIGHTS
FONT_WEIGHTS ==
  <<<<"t", "h", "i", "n">>,
    <<"u", "l", "t", "r", "a", "L", "i", "g", "h", "t">>,
    <<"l", "i", "g", "h", "t">>,
    <<"r", "e", "g", "u", "l", "a", "r">>,
    <<"m", "e", "d", "i", "u", "m">>,
    <<"s", "e", "m", "i", "b", "o", "l", "d">>,
    <<"b", "o", "l", "d">>,
    <<"h", "e", "a", "v", "y">>,
    <<"b", "l", "a", "c", "k">>>>

Bold == <<"b", "o", "l", "d">>
UltraLight == <<"u", "l", "t", "r", "a", "L", "i", "g", "h", "t">>
\* weights given on the command line in another spelling
CustomWeight == <<"B", "o", "l", "d">>
CustomRegular == <<"R", "e", "g", "u", "l", "a", "r">>

MoonStars == <<"M", "o", "o", "n", ".", "S", "t", "a", "r", "s">>

\* extents 0..MaxExtent of the bounding boxes, besides the listed ones
MaxExtent == 3
\* the longest icon name drawn from NameChars
MaxNameLen == 2
\* the most icon names of a batch
MaxNames == 2

\* fontSize and padding: the defaults, the README's examples, no padding,
\* a negative padding, and paddings of half the canvas and more
Configs ==
  {<<24, 2>>, <<32, 4>>, <<24, 0>>, <<24, -2>>, <<24, 12>>, <<24, 13>>}

Origins == {<<0, 0>>, <<-3, 2>>, <<1000, -1>>}
\* 47, 77 and 187 are extents whose scaled size is rounded (77 in the default
\* configuration); 100 and 50 are the extents of the documented example
Extents == (0..MaxExtent) \cup {47, 50, 77, 100, 187}

Outlines ==
  {Outline(o[1], o[2], o[1] + w, o[2] + h) : o \in Origins, w, h \in Extents}

Glyphs == {NotDef, Broken} \cup Outlines

DefaultFontSize == 24
DefaultPadding == 2

SeqsUpTo(S, n) == UNION {[1..k -> S] : k \in 1..n}

NameChars == {"a", "B", "7", ".", " ", "_"}
NameStrings == SeqsUpTo(NameChars, MaxNameLen) \cup {MoonStars}
WeightStrings == Range(FONT_WEIGHTS) \cup {CustomWeight, CustomRegular}

\* a font that has the one glyph g for every character
FontOf(g) == [c \in {"c1", "c2", "c3"} |-> g]
Square == Outline(0, 0, 10, 10)

V60 == <<"6", ".", "0">>
V61 == <<"6", ".", "1">>
Folder(name) == [name |-> name, isDirectory |-> TRUE]
DataFilesOf(dir, v) == {<<dir, v, "symbols.txt">>, <<dir, v, "names.txt">>}

\* cli.flags of a run without options besides the weights
DefaultFlags(weight) ==
  [weight |-> weight, fontsDir |-> "undefined",
   sfVersion |-> [defined |-> FALSE, value |-> <<>>],
   sourcesDir |-> "undefined", iconsList |-> FALSE]

\* the fonts directory that the loaded fonts vf were read from
FontFilesOf(vf) ==
  [k \in {fontName(vf[i].weight) : i \in DOMAIN vf} |->
     [ok |-> TRUE,
      font |-> vf[CHOOSE i \in DOMAIN vf : fontName(vf[i].weight) = k].font]]

\* a file system that the lists and the fonts of the loop were read from
DiskOf(ns, sd, vf) ==
  [sources |-> [default |-> Listing(<<Folder(V60)>>), custom |-> Unreadable],
   dataFiles |-> DataFilesOf("default", V60),
   names |-> ns, symbols |-> sd, fontFiles |-> FontFilesOf(vf),
   iconsList |-> [readable |-> FALSE, lines |-> <<>>],
   outputIsFile |-> FALSE]

\* the state at the start of the generation loop, once names, symbolsData
\* and validFonts are given
Start ==
  /\ namesIndex = 0
  /\ fontIndex = 0
  /\ lastCall = NoCall
  /\ files = <<>>
  /\ writes = <<>>
  /\ pc = "generate"
  /\ weights = [i \in DOMAIN validFonts |-> validFonts[i].weight]
  /\ flags = DefaultFlags(weights)
  /\ disk = DiskOf(names, symbolsData, validFonts)
  /\ availableVersions = <<V60>>
  /\ version = V60
  /\ fonts = [i \in DOMAIN validFonts |-> Fulfilled(validFonts[i])]
  /\ outputCreated = TRUE
  /\ thrown = ""
  /\ exitCode = -1

\* one icon in one weight, over the glyphs and the configurations
InitFit ==
  /\ \E c \in Configs : fontSize = c[1] /\ padding = c[2]
  /\ names = <<<<"x">>>>
  /\ \E g \in Glyphs :
       /\ validFonts = <<[weight |-> Regular, font |-> FontOf(g)]>>
       /\ symbolsData \in {<<"c1">>} \cup (IF g = NotDef THEN {<<>>} ELSE {})
  /\ Start

\* one icon in one weight, over the names and the weights
InitName ==
  /\ fontSize = DefaultFontSize
  /\ padding = DefaultPadding
  /\ \E n \in NameStrings : names = <<n>>
  /\ \E w \in WeightStrings :
       /\ validFonts = <<[weight |-> w, font |-> FontOf(Square)]>>
       /\ symbolsData \in {<<"c1">>} \cup (IF w = Regular THEN {<<>>} ELSE {})
  /\ Start

BatchNames == {<<"a", " ", "b">>, <<"a", "_", "b">>, <<"x">>}
BatchFonts ==
  {FontOf(Square),
   [c \in {"c1", "c2", "c3"} |-> IF c = "c1" THEN NotDef ELSE Square]}
Tokens == <<"c1", "c2", "c3">>

\* a batch of up to MaxNames icons in one or two weights
Init ==
  /\ fontSize = DefaultFontSize
  /\ padding = DefaultPadding
  /\ names \in SeqsUpTo(BatchNames, MaxNames)
  /\ symbolsData \in {SubSeq(Tokens, 1, Len(names)),
                      SubSeq(Tokens, 1, Len(names) - 1)}
  /\ validFonts \in SeqsUpTo([weight : {Regular, Bold}, font : BatchFonts], 2)
  \* one font file per weight
  /\ \A i, j \in DOMAIN validFonts :
       validFonts[i].weight = validFonts[j].weight
         => validFonts[i].font = validFonts[j].font
  /\ Start

Spec == Init /\ [][Next]_vars
SpecFit == InitFit /\ [][Next]_vars
SpecName == InitName /\ [][Next]_vars

----------------------------------------------------------------------------
(* The run of the command: the flags, the checks of makeSvgs, the fonts,   *)
(* the lists, the output directory, the loop and the exit.                 *)

AllWeights == <<"a", "l", "l">>

\* s.toLowerCase()
lowerString(str) == [i \in 1..Len(str) |-> toLowerCase(str[i])]

\* weights without the special value
requestedWeightsAsGiven(flagWeight) == flagWeight

\* the weights given to makeSvgs for the values of the flag --weight
requestedWeights(flagWeight) ==
  IF Len(flagWeight) = 1 /\ lowerString(flagWeight[1]) = AllWeights
  THEN FONT_WEIGHTS
  ELSE flagWeight

\* the state of the generation loop, and the options of the run
loop == <<namesIndex, fontIndex, lastCall, files, writes>>
given == <<fontSize, padding, flags, disk>>

\* the module is evaluated: let weights = cli.flags.weight ...
ReadFlags ==
  /\ pc = "cli"
  /\ weights' = requestedWeights(flags.weight)
  /\ pc' = "start"
  /\ UNCHANGED <<given, loop, names, symbolsData, validFonts,
                 availableVersions, version, fonts, outputCreated, thrown,
                 exitCode>>

\* throw new Error(...): makeSvgs is rejected
Throw(error) == thrown' = error /\ pc' = "rejected"

\* sourcesDir of makeSvgs: the option, or DEFAULT_SOURCES_DIR
sourcesDirOf(option) == IF option = "undefined" THEN "default" ELSE option

\* fontsDir of makeSvgs: the option, or "/Library/Fonts"
fontsDirOf(option) == IF option = "undefined" THEN "/Library/Fonts" ELSE option

\* version: versionOption = DEFAULT_VERSION, then
\* versionOption ? String(versionOption) : availableVersions[0]
versionOf(sfVersion, defaultVersion, available) ==
  IF (IF sfVersion.defined THEN sfVersion.value ELSE defaultVersion) # <<>>
  THEN (IF sfVersion.defined THEN sfVersion.value ELSE defaultVersion)
  ELSE available[1]

\* fs.statSync(path.join(sourcesDir, version)).isDirectory() does not throw
\* and is true
versionDirExists(listing, v) ==
  /\ listing.readable
  /\ \E i \in DOMAIN listing.items :
       listing.items[i].name = v /\ listing.items[i].isDirectory

\* checkDataFilesExist
checkDataFilesExist(v, sourcesDir) ==
  /\ <<sourcesDir, v, "symbols.txt">> \in disk.dataFiles
  /\ <<sourcesDir, v, "names.txt">> \in disk.dataFiles

\* the checks of makeSvgs after the version is known
checkVersion(sourcesDir, v) ==
  IF fontsDirOf(flags.fontsDir) = "" THEN Throw("fontsDir")
  ELSE IF ~versionDirExists(disk.sources[sourcesDir], v)
  THEN Throw("versionDir")
  ELSE IF ~checkDataFilesExist(v, sourcesDir) THEN Throw("dataFiles")
  ELSE pc' = "load" /\ UNCHANGED thrown

\* makeSvgs, given the result of detectAvailableVersions
checkDetected(sourcesDir, detected) ==
  IF detected.threw
  THEN Throw("versions") /\ UNCHANGED <<availableVersions, version>>
  ELSE /\ availableVersions' = detected.versions
       /\ version' = versionOf(flags.sfVersion,
                               DEFAULT_VERSION(disk.sources.default),
                               detected.versions)
       /\ checkVersion(sourcesDir, version')

\* makeSvgs from its start to "Loading Fonts..."
CheckSources ==
  /\ pc = "start"
  /\ checkDetected(sourcesDirOf(flags.sourcesDir),
                   detectAvailableVersions(
                     disk.sources[sourcesDirOf(flags.sourcesDir)]))
  /\ UNCHANGED <<given, loop, names, symbolsData, validFonts, weights, fonts,
                 outputCreated, exitCode>>

\* weights.map(async (weight) => ...): every callback runs to its await
LoadFonts ==
  /\ pc = "load"
  /\ fonts' = [i \in DOMAIN weights |-> loadStarted(disk.fontFiles, weights[i])]
  /\ pc' = "await"
  /\ UNCHANGED <<given, loop, names, symbolsData, validFonts, weights,
                 availableVersions, version, outputCreated, thrown, exitCode>>

\* opentype.load of the i-th weight settles, and its callback returns
SettleLoad(i) ==
  /\ pc = "await"
  /\ fonts[i].state = "pending"
  /\ fonts' = [fonts EXCEPT ![i] = loadSettled(disk.fontFiles, weights[i])]
  /\ UNCHANGED <<given, loop, names, symbolsData, validFonts, weights,
                 availableVersions, version, outputCreated, thrown, exitCode,
                 pc>>

\* Promise.any in the place of Promise.all
promiseAny(promises) ==
  \E i \in DOMAIN promises : promises[i].state = "fulfilled"

\* Promise.all(promises) is fulfilled
promiseAll(promises) ==
  \A i \in DOMAIN promises : promises[i].state = "fulfilled"

\* fonts.filter((item) => !!item), with the values of the promises
truthyFonts(promises) ==
  LET truthy == SelectSeq(promises, LAMBDA q : q.value # Null)
  IN [i \in 1..Len(truthy) |-> truthy[i].value]

\* the output directory made before the check of validFonts
AwaitFontsAfterMkdir ==
  /\ pc = "await"
  /\ promiseAll(fonts)
  /\ validFonts' = truthyFonts(fonts)
  /\ outputCreated' = TRUE
  /\ IF Len(validFonts') = 0
     THEN Throw("fonts")
     ELSE pc' = "read" /\ UNCHANGED thrown
  /\ UNCHANGED <<given, loop, names, symbolsData, weights, fonts,
                 availableVersions, version, exitCode>>

\* the await of Promise.all returns: validFonts and its check
AwaitFonts ==
  /\ pc = "await"
  /\ promiseAll(fonts)
  /\ validFonts' = truthyFonts(fonts)
  /\ IF Len(validFonts') = 0
     THEN Throw("fonts")
     ELSE pc' = "read" /\ UNCHANGED thrown
  /\ UNCHANGED <<given, loop, names, symbolsData, weights, fonts,
                 availableVersions, version, outputCreated, exitCode>>

\* let symbolsData = ...; let names = ...
ReadLists ==
  /\ pc = "read"
  /\ symbolsData' = disk.symbols
  /\ names' = disk.names
  /\ pc' = "filter"
  /\ UNCHANGED <<given, loop, validFonts, setup>>

\* names.indexOf(iconName): counted from 0, -1 when absent
indexOf(list, x) ==
  IF \E i \in DOMAIN list : list[i] = x
  THEN (CHOOSE i \in DOMAIN list :
          list[i] = x /\ \A j \in 1..(i - 1) : list[j] # x) - 1
  ELSE -1

\* a filter that keeps the names that names does not have
filteredNamesUnchecked(iconsList, ns) == iconsList

\* the icon names of the list that names has
filteredNames(iconsList, ns) ==
  SelectSeq(iconsList, LAMBDA iconName : indexOf(ns, iconName) # -1)

\* what one turn of the loop over iconsList pushes to filteredSymbols
pushedSymbol(index, sd) ==
  IF index # -1 /\ index < Len(sd) /\ sd[index + 1] # ""
  THEN <<sd[index + 1]>>
  ELSE <<>>

RECURSIVE filteredSymbolsUpTo(_, _, _, _)
\* filteredSymbols after the first n names of iconsList
filteredSymbolsUpTo(iconsList, ns, sd, n) ==
  IF n = 0 THEN <<>>
  ELSE filteredSymbolsUpTo(iconsList, ns, sd, n - 1)
         \o pushedSymbol(indexOf(ns, iconsList[n]), sd)

filteredSymbols(iconsList, ns, sd) ==
  filteredSymbolsUpTo(iconsList, ns, sd, Len(iconsList))

\* a filter that is used also when names has none of its names
filterAppliesUnmatched(option, file, ns) ==
  option /\ file.readable /\ Len(file.lines) # 0

\* the icons list file is read and used: the option is given, the file can
\* be read and has a name, and names has one of its names
filterApplies(option, file, ns) ==
  /\ option
  /\ file.readable
  /\ Len(file.lines) # 0
  /\ Len(filteredNames(file.lines, ns)) # 0

\* if (iconsListFileOption) { ... }
FilterIcons ==
  /\ pc = "filter"
  /\ IF filterApplies(flags.iconsList, disk.iconsList, names)
     THEN /\ names' = filteredNames(disk.iconsList.lines, names)
          /\ symbolsData' =
               filteredSymbols(disk.iconsList.lines, names, symbolsData)
     ELSE UNCHANGED <<names, symbolsData>>
  /\ pc' = "mkdir"
  /\ UNCHANGED <<given, loop, validFonts, setup>>

\* fs.mkdirSync(PATHS.SVG_OUTPUT, { recursive: true }): throws when the path
\* is a file
MakeOutputDir ==
  /\ pc = "mkdir"
  /\ IF disk.outputIsFile
     THEN Throw("mkdir") /\ UNCHANGED outputCreated
     ELSE outputCreated' = TRUE /\ pc' = "generate" /\ UNCHANGED thrown
  /\ UNCHANGED <<given, loop, names, symbolsData, validFonts, weights,
                 availableVersions, version, fonts, exitCode>>

\* a handler that reports the error and lets the process end
CatchErrorLogged ==
  /\ pc = "rejected"
  /\ exitCode' = 0
  /\ pc' = "exited"
  /\ UNCHANGED <<given, loop, names, symbolsData, validFonts, weights,
                 availableVersions, version, fonts, outputCreated, thrown>>

\* .catch((error) => { ...; process.exit(1) })
CatchError ==
  /\ pc = "rejected"
  /\ exitCode' = 1
  /\ pc' = "exited"
  /\ UNCHANGED <<given, loop, names, symbolsData, validFonts, weights,
                 availableVersions, version, fonts, outputCreated, thrown>>

\* makeSvgs is fulfilled and nothing is left to run: the process ends
ProcessEnd ==
  /\ pc = "done"
  /\ exitCode' = 0
  /\ pc' = "exited"
  /\ UNCHANGED <<given, loop, names, symbolsData, validFonts, weights,
                 availableVersions, version, fonts, outputCreated, thrown>>

NextRun ==
  \/ ReadFlags
  \/ CheckSources
  \/ LoadFonts
  \/ \E i \in DOMAIN fonts : SettleLoad(i)
  \/ AwaitFonts
  \/ ReadLists
  \/ FilterIcons
  \/ MakeOutputDir
  \/ SkipName
  \/ RenderPair
  \/ Finish
  \/ CatchError
  \/ ProcessEnd

----------------------------------------------------------------------------
(* Inputs of the run.                                                      *)

\* the most names of an icons list file
MaxIcons == 2

V50 == <<"5", ".", "0">>
V70 == <<"7", ".", "0">>
V99 == <<"9", ".", "9">>
HiddenFolder == <<".", "6">>

IconA == <<"a">>
IconB == <<"b">>
IconC == <<"c">>
\* a name that names.txt does not have
IconZ == <<"z">>

Thin == <<"t", "h", "i", "n">>
Black == <<"b", "l", "a", "c", "k">>

\* a font without a glyph for c2, and whose path of c3 throws
FontWithGaps ==
  [c \in {"c1", "c2", "c3"} |->
     IF c = "c2" THEN NotDef ELSE IF c = "c3" THEN Broken ELSE Square]
\* a font whose glyph of c1 has an outline without width
FontWithBlank ==
  [c \in {"c1", "c2", "c3"} |->
     IF c = "c1" THEN Outline(0, 0, 0, 5) ELSE Square]

\* fonts directories, by the names of their font files
FontDirs ==
  {[k \in {fontName(Regular)} |-> [ok |-> TRUE, font |-> FontOf(Square)]],
   [k \in {fontName(Regular), fontName(Bold), fontName(Black)} |->
      IF k = fontName(Regular) THEN [ok |-> TRUE, font |-> FontWithGaps]
      ELSE IF k = fontName(Bold) THEN [ok |-> TRUE, font |-> FontWithBlank]
      ELSE [ok |-> FALSE, font |-> FontOf(Square)]],
   [k \in {fontName(Bold)} |-> [ok |-> FALSE, font |-> FontOf(Square)]]}
PlainFontDir ==
  [k \in {fontName(Regular)} |-> [ok |-> TRUE, font |-> FontOf(Square)]]
\* a fonts directory whose Regular font has gaps and whose Black font does
\* not load
GapFontDir ==
  [k \in {fontName(Regular), fontName(Black)} |->
     IF k = fontName(Regular) THEN [ok |-> TRUE, font |-> FontWithGaps]
     ELSE [ok |-> FALSE, font |-> FontOf(Square)]]

\* the values of the flag --weight
WeightFlags ==
  {<<Regular>>, <<Bold>>, <<Black>>, <<Thin>>, <<Bold, Regular>>,
   <<Regular, Black>>, <<Black, Bold>>, <<Bold, Bold>>, <<AllWeights>>,
   <<<<"A", "l", "l">>>>, <<AllWeights, Bold>>, <<Regular, AllWeights>>}

\* the values of the flag --sf-version: none, "6.0", "9.9" and ""
VersionFlags ==
  {[defined |-> FALSE, value |-> <<>>], [defined |-> TRUE, value |-> V60],
   [defined |-> TRUE, value |-> V99], [defined |-> TRUE, value |-> <<>>]}

DefaultListings == {Unreadable, Listing(<<Folder(V60), Folder(V61)>>)}
CustomListings ==
  {Unreadable, Listing(<<>>), Listing(<<Folder(V50)>>),
   Listing(<<Folder(V61), Folder(V70)>>),
   Listing(<<[name |-> V60, isDirectory |-> FALSE], Folder(HiddenFolder)>>)}

AllDataFiles ==
  UNION {DataFilesOf(d, v) : d \in {"default", "custom"},
                            v \in {V50, V60, V61, V70}}
DataFileSets ==
  {AllDataFiles,
   AllDataFiles \ {<<d, V61, "names.txt">> : d \in {"default", "custom"}},
   AllDataFiles \ {<<d, V60, "symbols.txt">> : d \in {"default", "custom"}}}

IconsFiles ==
  {[readable |-> FALSE, lines |-> <<>>], [readable |-> TRUE, lines |-> <<>>]}
    \cup {[readable |-> TRUE, lines |-> l] :
            l \in SeqsUpTo({IconA, IconB, IconC, IconZ}, MaxIcons)}

\* a file system with the lists ns and sd and the fonts directory dir
PlainDisk(ns, sd, dir) ==
  [sources |-> [default |-> Listing(<<Folder(V60), Folder(V61)>>),
                custom |-> Unreadable],
   dataFiles |-> AllDataFiles, names |-> ns, symbols |-> sd,
   fontFiles |-> dir, iconsList |-> [readable |-> FALSE, lines |-> <<>>],
   outputIsFile |-> FALSE]

\* runs over the sources directories, the version, the fonts directory
\* option and the output path
InitSources ==
  /\ \E dir \in {"undefined", ""}, v \in VersionFlags,
        src \in {"undefined", "custom"} :
       flags = [DefaultFlags(<<Regular>>) EXCEPT
                  !.fontsDir = dir, !.sfVersion = v, !.sourcesDir = src]
  /\ \E d \in DefaultListings, c \in CustomListings, data \in DataFileSets,
        isFile \in BOOLEAN :
       disk = [PlainDisk(<<IconA, IconB>>, <<"c1", "c2">>, PlainFontDir) EXCEPT
                 !.sources = [default |-> d, custom |-> c],
                 !.dataFiles = data, !.outputIsFile = isFile]

\* runs over the weights and the fonts directory
InitWeights ==
  /\ \E w \in WeightFlags : flags = DefaultFlags(w)
  /\ \E dir \in FontDirs :
       disk = PlainDisk(<<IconA, IconB, IconC>>, <<"c1", "c2", "c3">>, dir)

\* runs over the icons list file and the length of symbols.txt
InitIcons ==
  \/ /\ \E hasList \in BOOLEAN :
          flags = [DefaultFlags(<<Regular>>) EXCEPT !.iconsList = hasList]
     /\ \E file \in IconsFiles, n \in 1..3 :
          disk = [PlainDisk(<<IconA, IconB, IconC>>,
                            SubSeq(<<"c1", "c2", "c3">>, 1, n), PlainFontDir)
                    EXCEPT !.iconsList = file]
  \/ /\ flags = [DefaultFlags(<<Regular, Black>>) EXCEPT !.iconsList = TRUE]
     /\ \E file \in IconsFiles :
          disk = [PlainDisk(<<IconA, IconB, IconC>>, <<"c1", "c2", "c3">>,
                            GapFontDir)
                    EXCEPT !.iconsList = file]

\* the process starts
InitRun ==
  /\ fontSize = DefaultFontSize
  /\ padding = DefaultPadding
  /\ InitSources \/ InitWeights \/ InitIcons
  /\ names = <<>>
  /\ symbolsData = <<>>
  /\ validFonts = <<>>
  /\ namesIndex = 0
  /\ fontIndex = 0
  /\ lastCall = NoCall
  /\ files = <<>>
  /\ writes = <<>>
  /\ pc = "cli"
  /\ weights = <<>>
  /\ availableVersions = <<>>
  /\ version = <<>>
  /\ fonts = <<>>
  /\ outputCreated = FALSE
  /\ thrown = ""
  /\ exitCode = -1

SpecRun == InitRun /\ [][NextRun]_vars

----------------------------------------------------------------------------
(* The detection of the versions: the run up to the end of its checks,     *)
(* over the entries of the default sources directory.                      *)

\* the most version folders of a sources directory
MaxFolders == 4

V6 == <<"6">>
V69 == <<"6", ".", "9">>
V610 == <<"6", ".", "1", "0">>

\* the names of the folders: versions, and "6a", which is not a number
FolderNames == {V6, V60, V61, V69, V610, <<"1", "0">>, <<"6", "a">>}

\* the names of the folders of a directory, in the order readdirSync gives
FolderLists ==
  {<<>>} \cup {l \in SeqsUpTo(FolderNames, MaxFolders) :
                 \A i, j \in DOMAIN l : i # j => l[i] # l[j]}

\* the entries for the folders l, with a file that is not a folder put
\* first or not
entriesOf(l, withFile) ==
  (IF withFile THEN <<[name |-> <<"9">>, isDirectory |-> FALSE]>> ELSE <<>>)
    \o [i \in DOMAIN l |-> Folder(l[i])]

\* the process starts with the default flags
InitVersions ==
  /\ fontSize = DefaultFontSize
  /\ padding = DefaultPadding
  /\ flags = DefaultFlags(<<Regular>>)
  /\ \E l \in FolderLists, withFile \in BOOLEAN :
       disk = [PlainDisk(<<IconA, IconB>>, <<"c1", "c2">>, PlainFontDir)
                 EXCEPT !.sources.default = Listing(entriesOf(l, withFile))]
  /\ names = <<>>
  /\ symbolsData = <<>>
  /\ validFonts = <<>>
  /\ namesIndex = 0
  /\ fontIndex = 0
  /\ lastCall = NoCall
  /\ files = <<>>
  /\ writes = <<>>
  /\ pc = "cli"
  /\ weights = <<>>
  /\ availableVersions = <<>>
  /\ version = <<>>
  /\ fonts = <<>>
  /\ outputCreated = FALSE
  /\ thrown = ""
  /\ exitCode = -1

\* the run up to the end of the checks of makeSvgs
NextVersions == ReadFlags \/ CheckSources \/ CatchError

SpecVersions == InitVersions /\ [][NextVersions]_vars

----------------------------------------------------------------------------
(* The latest call of generateSymbolSvg, as the properties below see it.   *)

\* the call returned a document
Rendered == lastCall.made /\ lastCall.svgContent # Null

\* the bounding box has positive width and positive height
NonDegenerate ==
  /\ lastCall.glyph.kind = "path"
  /\ lastCall.glyph.x2 > lastCall.glyph.x1
  /\ lastCall.glyph.y2 > lastCall.glyph.y1

Matrix == lastCall.svgContent.transform
Scale == Matrix[1]
Box == getBoundingBox(lastCall.glyph)
Canvas == FInt(fontSize)
Available == availableSize(FInt(fontSize), FInt(padding))
ScaledWidth == FMul(FSub(Box.x2, Box.x1), Scale)
ScaledHeight == FMul(FSub(Box.y2, Box.y1), Scale)

\* applyTransformToPoint of index.test.ts
applyTransformToPoint(x, y, matrix) ==
  <<FAdd(FAdd(FMul(matrix[1], x), FMul(matrix[3], y)), matrix[5]),
    FAdd(FAdd(FMul(matrix[2], x), FMul(matrix[4], y)), matrix[6])>>

\* the images of the corners (x1, y1) and (x2, y2) of the bounding box
CornerMin == applyTransformToPoint(Box.x1, Box.y1, Matrix)
CornerMax == applyTransformToPoint(Box.x2, Box.y2, Matrix)

FMin(a, b) == IF FGt(a, b) THEN b ELSE a
FMax(a, b) == IF FGt(a, b) THEN a ELSE b

\* the margins of a box with the opposite corners a and b in the canvas:
\* left, right, top, bottom
MarginsOf(a, b) ==
  <<FMin(a[1], b[1]), FSub(Canvas, FMax(a[1], b[1])),
    FMin(a[2], b[2]), FSub(Canvas, FMax(a[2], b[2]))>>

\* the margins of the transformed bounding box
Margins == MarginsOf(CornerMin, CornerMax)
LeftMargin == Margins[1]
RightMargin == Margins[2]

AbsInt(n) == IF n >= 0 THEN n ELSE -n
MaxAbsCoord ==
  Max2(Max2(AbsInt(lastCall.glyph.x1), AbsInt(lastCall.glyph.x2)),
       Max2(AbsInt(lastCall.glyph.y1), AbsInt(lastCall.glyph.y2)))

\* The rounding error allowed to a transformed coordinate: 2^-48 of the
\* largest magnitude met while computing it, canvas + |scale| * |coordinate|.
\* (Each of the at most eight roundings on the way is off by at most 2^-53
\* of a value below twice that magnitude.)
RoundingUnit == FRound(1, <<1>>, -48)
Tolerance ==
  FMul(RoundingUnit, FAdd(Canvas, FMul(FAbs(Scale), FInt(MaxAbsCoord))))

\* a and b differ by at most t
Near(a, b, t) == FGe(t, FAbs(FSub(a, b)))

\* the images of the four corners of the bounding box
Corners ==
  {applyTransformToPoint(x, y, Matrix) :
     x \in {Box.x1, Box.x2}, y \in {Box.y1, Box.y2}}

\* 0 <= v <= canvasSize
Inside(v) == FGe(v, FZero) /\ FGe(Canvas, v)
\* -t <= v <= canvasSize + t
InsideNear(v, t) == FGe(v, FNeg(t)) /\ FGe(FAdd(Canvas, t), v)
\* every point of ps is in the canvas, up to t in each coordinate
AllInsideNear(ps, t) ==
  \A p \in ps : InsideNear(p[1], t) /\ InsideNear(p[2], t)

----------------------------------------------------------------------------
(* C1, as stated: for every bounding box of positive width and height and  *)
(* every configuration with padding*2 < canvasSize, the transform maps the *)
(* four corners of the box into [0, canvasSize] x [0, canvasSize].         *)
(* Violated: a negative padding satisfies padding*2 < canvasSize and makes *)
(* the available area larger than the canvas.                              *)
C1_CornersInsideCanvas ==
  (Rendered /\ NonDegenerate /\ padding * 2 < fontSize)
    => \A p \in Corners : Inside(p[1]) /\ Inside(p[2])

(* C1, amended: for every bounding box of positive width and height and    *)
(* every configuration with 0 <= padding and padding*2 < canvasSize, the   *)
(* transform maps the four corners of the box into the canvas up to the    *)
(* rounding error of the computation.                                      *)
C1_CornersInsideCanvasRounded ==
  (Rendered /\ NonDegenerate /\ padding >= 0 /\ padding * 2 < fontSize)
    => AllInsideNear(Corners, Tolerance)

\* a box that starts left of the origin was fitted without padding, and
\* rounding puts one of its corners outside the canvas
C1_Witness ==
  /\ Rendered /\ NonDegenerate
  /\ padding = 0
  /\ lastCall.glyph.x1 < 0
  /\ \E p \in Corners : ~(Inside(p[1]) /\ Inside(p[2]))

----------------------------------------------------------------------------
\* the ratio of the width to its available space is the larger one
WidthRatioLarger ==
  FGt(FDiv(FSub(Box.x2, Box.x1), Available),
      FDiv(FSub(Box.y2, Box.y1), Available))
LimitingSize == IF WidthRatioLarger THEN ScaledWidth ELSE ScaledHeight
OtherSize == IF WidthRatioLarger THEN ScaledHeight ELSE ScaledWidth
SizeTolerance == FMul(FRound(1, <<1>>, -50), FAbs(Available))

\* limiting is within t of available, and other is at most available + t
FillsNear(limiting, other, available, t) ==
  /\ Near(limiting, available, t)
  /\ FGe(FAdd(available, t), other)
\* the same for the scaled width and height, whichever is the limiting one
FillsEitherNear(widthFirst, width, height, available, t) ==
  IF widthFirst
  THEN FillsNear(width, height, available, t)
  ELSE FillsNear(height, width, available, t)

(* C2, as stated: for every bounding box of positive width and height, the *)
(* dimension with the larger ratio to its available space (ties: height)   *)
(* has scaled size exactly canvasSize - padding*2, and the other dimension *)
(* a scaled size <= canvasSize - padding*2.                                *)
(* Stated here for the default configuration (canvas 24, padding 2) only. *)
(* Violated: size * (available / size) is rounded twice.                   *)
C2_LimitingFillsExactly ==
  (Rendered /\ NonDegenerate
     /\ fontSize = DefaultFontSize /\ padding = DefaultPadding)
    => FEq(LimitingSize, Available) /\ FGe(Available, OtherSize)

(* C2, amended: the dimension with the larger ratio (ties: height) has a   *)
(* scaled size equal to canvasSize - padding*2 up to floating-point        *)
(* rounding (a relative error of at most 2^-50), and the scaled size of    *)
(* the other dimension exceeds canvasSize - padding*2 by no more than that.*)
C2_LimitingFillsRounded ==
  (Rendered /\ NonDegenerate)
    => FillsEitherNear(WidthRatioLarger, ScaledWidth, ScaledHeight,
                       Available, SizeTolerance)

\* a fitted box whose width is limiting and is not scaled exactly
C2_Witness ==
  /\ Rendered /\ NonDegenerate
  /\ WidthRatioLarger
  /\ ~FEq(ScaledWidth, Available)

----------------------------------------------------------------------------
\* the margins m (left, right, top, bottom) are pairwise equal up to 2t, and
\* when padding*2 <= canvasSize each is at least the padding up to t
CenteredNear(m, t) ==
  /\ Near(m[1], m[2], FAdd(t, t))
  /\ Near(m[3], m[4], FAdd(t, t))
  /\ padding * 2 <= fontSize
       => \A i \in 1..4 : FGe(FAdd(m[i], t), FInt(padding))

(* C3, as stated: for every bounding box of positive width and height,     *)
(* also with minX/minY non-zero or negative, the transformed box is        *)
(* centered (left margin = right margin, top margin = bottom margin) and   *)
(* each margin is at least the padding.                                    *)
(* Stated here for the default configuration (canvas 24, padding 2) only. *)
(* Violated: the margins are rounded.  (With padding*2 > canvasSize the    *)
(* margins are canvasSize - padding, less than the padding.)               *)
C3_Centered ==
  (Rendered /\ NonDegenerate
     /\ fontSize = DefaultFontSize /\ padding = DefaultPadding)
    => /\ FEq(Margins[1], Margins[2])
       /\ FEq(Margins[3], Margins[4])
       /\ \A i \in 1..4 : FGe(Margins[i], FInt(padding))

(* C3, amended: for every bounding box of positive width and height, also  *)
(* with minX/minY non-zero or negative, the transformed box is centered    *)
(* up to the rounding error of the computation, and when                   *)
(* padding*2 <= canvasSize each margin is at least the padding up to that  *)
(* error.                                                                  *)
C3_CenteredRounded ==
  (Rendered /\ NonDegenerate) => CenteredNear(Margins, Tolerance)

\* a fitted box with a negative minX whose horizontal margins differ
C3_Witness ==
  /\ Rendered /\ NonDegenerate
  /\ padding > 0 /\ padding * 2 <= fontSize
  /\ lastCall.glyph.x1 < 0
  /\ ~FEq(LeftMargin, RightMargin)

----------------------------------------------------------------------------
\* the bounding box has zero width or zero height
ZeroArea ==
  /\ lastCall.glyph.kind = "path"
  /\ \/ lastCall.glyph.x2 = lastCall.glyph.x1
     \/ lastCall.glyph.y2 = lastCall.glyph.y1

(* C4: when the bounding box of a glyph has zero width or zero height,     *)
(* generateSymbolSvg yields null and no file is written for the pair; no   *)
(* Infinity or NaN reaches the transform of an emitted document.           *)
(* Stated here for the default configuration (canvas 24, padding 2) only. *)
(* Violated by the code: it has no test of the width or the height.        *)
C4_DegenerateYieldsNull ==
  (fontSize = DefaultFontSize /\ padding = DefaultPadding)
    => /\ (lastCall.made /\ ZeroArea)
            => /\ lastCall.svgContent = Null
               /\ lastCall.svgFilename \notin DOMAIN files
       /\ \A f \in DOMAIN files :
            \A i \in 1..6 : FFinite(files[f].transform[i])

----------------------------------------------------------------------------
(* C5, as stated: every emitted transform has scale > 0 whenever the box   *)
(* has positive width and height, for every canvas size and padding the    *)
(* command line accepts.                                                   *)
(* Violated: padding*2 = canvasSize gives scale 0, more gives scale < 0.   *)
C5_ScalePositive == (Rendered /\ NonDegenerate) => FGt(Scale, FZero)

(* C5, amended: every emitted transform has scale > 0 whenever the box has *)
(* positive width and height and padding*2 < canvasSize.                   *)
C5_ScalePositiveWithinCanvas ==
  (Rendered /\ NonDegenerate /\ padding * 2 < fontSize) => FGt(Scale, FZero)

\* a written document for a box of positive area and a negative padding
C5_Witness ==
  /\ Rendered /\ NonDegenerate
  /\ padding < 0
  /\ lastCall.svgFilename \in DOMAIN files

----------------------------------------------------------------------------
\* the case of C6: canvas 24, padding 2, box {0, 0, 100, 50}
C6_Case ==
  /\ lastCall.made
  /\ fontSize = 24 /\ padding = 2
  /\ lastCall.glyph = Outline(0, 0, 100, 50)

(* C6: for canvas size 24, padding 2 and the bounding box                  *)
(* {minX 0, minY 0, maxX 100, maxY 50} the transform is exactly            *)
(* scale = 0.2 (the number nearest to 1/5), translateX = 2,                *)
(* translateY = 7, and the width is the limiting dimension.                *)
C6_Example ==
  C6_Case
    => /\ lastCall.svgContent # Null
       /\ Matrix = <<FDiv(FInt(1), FInt(5)), FZero, FZero,
                     FDiv(FInt(1), FInt(5)), FInt(2), FInt(7)>>
       /\ WidthRatioLarger

C6_Witness == C6_Case /\ lastCall.svgFilename \in DOMAIN files

----------------------------------------------------------------------------
(* File names of the written documents.                                    *)

\* the latest file name without its last four characters
Stem == SubSeq(lastCall.svgFilename, 1, Len(lastCall.svgFilename) - 4)
\* the four last characters of the latest file name
Extension ==
  SubSeq(lastCall.svgFilename, Len(lastCall.svgFilename) - 3,
         Len(lastCall.svgFilename))

(* C7: createSvgFilename maps icon name "Moon.Stars" with weight "regular" *)
(* to moon_stars.svg and with weight "bold" to moon_stars-bold.svg.        *)
(* Violated: the dot of the name is kept.                                  *)
C7_MoonStarsUnderscore ==
  (lastCall.made /\ lastCall.name = MoonStars) =>
    /\ lastCall.weight = Regular =>
         lastCall.svgFilename =
           <<"m", "o", "o", "n", "_", "s", "t", "a", "r", "s",
             ".", "s", "v", "g">>
    /\ lastCall.weight = Bold =>
         lastCall.svgFilename =
           <<"m", "o", "o", "n", "_", "s", "t", "a", "r", "s",
             "-", "b", "o", "l", "d", ".", "s", "v", "g">>

(* C7, amended: createSvgFilename maps icon name "Moon.Stars" with weight  *)
(* "regular" to moon.stars.svg and with weight "bold" to                   *)
(* moon.stars-bold.svg.                                                    *)
C7_MoonStarsDot ==
  (lastCall.made /\ lastCall.name = MoonStars) =>
    /\ lastCall.weight = Regular =>
         lastCall.svgFilename =
           <<"m", "o", "o", "n", ".", "s", "t", "a", "r", "s",
             ".", "s", "v", "g">>
    /\ lastCall.weight = Bold =>
         lastCall.svgFilename =
           <<"m", "o", "o", "n", ".", "s", "t", "a", "r", "s",
             "-", "b", "o", "l", "d", ".", "s", "v", "g">>

\* the document of Moon.Stars in the weight bold was written
C7_Witness ==
  /\ lastCall.made
  /\ lastCall.name = MoonStars
  /\ lastCall.weight = Bold
  /\ lastCall.svgFilename \in DOMAIN files

\* c is what the naming rule makes of the character d of an icon name
SafeCharOf(c, d) ==
  \/ \E k \in 1..26 : d \in {UpperLetters[k], LowerLetters[k]}
                        /\ c = LowerLetters[k]
  \/ d \in Digits \cup {"."} /\ c = d
  \/ /\ d \notin Digits \cup {"."}
     /\ \A k \in 1..26 : d \notin {UpperLetters[k], LowerLetters[k]}
     /\ c = "_"

\* safe is the icon name with every character other than a letter, a digit
\* or a dot replaced by an underscore, and lowercased
SafeOf(safe, name) ==
  /\ Len(safe) = Len(name)
  /\ \A i \in 1..Len(name) : SafeCharOf(safe[i], name[i])

(* C8: for every icon name and weight the file name is {safe}.svg when the *)
(* weight is exactly "regular" and {safe}-{weight}.svg for every other     *)
(* weight, where safe is the icon name with every character other than a   *)
(* letter, digit or dot replaced by an underscore and then lowercased.     *)
C8_FilenameRule ==
  lastCall.made =>
    /\ Extension = <<".", "s", "v", "g">>
    /\ IF lastCall.weight = <<"r", "e", "g", "u", "l", "a", "r">>
       THEN SafeOf(Stem, lastCall.name)
       ELSE /\ Len(Stem) = Len(lastCall.name) + 1 + Len(lastCall.weight)
            /\ SafeOf(SubSeq(Stem, 1, Len(lastCall.name)), lastCall.name)
            /\ Stem[Len(lastCall.name) + 1] = "-"
            /\ SubSeq(Stem, Len(lastCall.name) + 2, Len(Stem))
                 = lastCall.weight

\* a name with an uppercase letter and a space was written in the weight
\* "Regular", which is not exactly "regular"
C8_Witness ==
  /\ lastCall.made
  /\ lastCall.name = <<"B", " ">>
  /\ lastCall.weight = CustomRegular
  /\ lastCall.svgFilename \in DOMAIN files

\* lowercase letters, digits, dots and underscores
PlainChars == Range(LowerLetters) \cup Digits \cup {".", "_"}

(* C9: in every file name both the icon-name part and the weight part are  *)
(* sanitized and lowercased: for every name and every weight string (e.g.  *)
(* "ultraLight") the file name before the .svg extension contains only     *)
(* lowercase letters, digits, dots, underscores and the single '-'         *)
(* separator.                                                              *)
(* Violated: the weight is appended as it was given.                       *)
C9_BothPartsSanitized ==
  lastCall.made =>
    /\ \A i \in 1..Len(Stem) : Stem[i] \in PlainChars \cup {"-"}
    /\ Cardinality({i \in 1..Len(Stem) : Stem[i] = "-"}) <= 1

(* C9, amended: in every file name the icon-name part is sanitized and     *)
(* lowercased and the weight part is not: for every name and every weight  *)
(* string the part of the file name that stands for the icon name contains *)
(* only lowercase letters, digits, dots and underscores, and for a weight  *)
(* other than "regular" it is followed by '-' and the weight string as it  *)
(* was given (e.g. "-ultraLight").                                         *)
C9_NamePartSanitized ==
  lastCall.made =>
    /\ \A i \in 1..Len(lastCall.name) : Stem[i] \in PlainChars
    /\ lastCall.weight # Regular =>
         SubSeq(Stem, Len(lastCall.name) + 1, Len(Stem))
           = <<"-">> \o lastCall.weight
    /\ lastCall.weight = Regular => Len(Stem) = Len(lastCall.name)

\* a name with an uppercase letter was written in the weight ultraLight
C9_Witness ==
  /\ lastCall.made
  /\ lastCall.weight = UltraLight
  /\ \E i \in 1..Len(lastCall.name) : lastCall.name[i] = "B"
  /\ lastCall.svgFilename \in DOMAIN files

(* C10: a batch produces one distinct document file per successfully       *)
(* rendered (icon name, weight) pair: two different pairs never resolve to *)
(* the same output path, so no file written earlier in the run is          *)
(* overwritten by a later pair.                                            *)
(* Violated by the code: names that differ only in replaced characters or  *)
(* in case get the same file name.                                         *)
C10_DistinctPaths ==
  \A i, j \in DOMAIN writes :
    (i < j /\ <<writes[i].name, writes[i].weight>>
                # <<writes[j].name, writes[j].weight>>)
      => writes[i].path # writes[j].path

----------------------------------------------------------------------------
(* The run, as the properties below see it: what the file system and the   *)
(* flags say, apart from what the run made of them.                        *)

\* the sources directory of the run
UsedListing ==
  IF flags.sourcesDir = "undefined"
  THEN disk.sources.default
  ELSE disk.sources[flags.sourcesDir]
UsedSources ==
  IF flags.sourcesDir = "undefined" THEN "default" ELSE flags.sourcesDir

\* the names of the version directories of a sources directory
VersionDirs(listing) ==
  IF listing.readable
  THEN {listing.items[i].name :
          i \in {j \in DOMAIN listing.items :
                   /\ listing.items[j].isDirectory
                   /\ listing.items[j].name[1] # "."}}
  ELSE {}

\* no version directories detected
NoVersionsDetected == VersionDirs(UsedListing) = {}

\* the directory or a data file of the selected version is missing
DataFilesMissing ==
  /\ ~NoVersionsDetected
  /\ \/ ~UsedListing.readable
     \/ ~\E i \in DOMAIN UsedListing.items :
           /\ UsedListing.items[i].name = version
           /\ UsedListing.items[i].isDirectory
     \/ <<UsedSources, version, "symbols.txt">> \notin disk.dataFiles
     \/ <<UsedSources, version, "names.txt">> \notin disk.dataFiles

\* the font file of the weight is there and opentype.js can load it
LoadSucceeds(weight) ==
  /\ fontName(weight) \in DOMAIN disk.fontFiles
  /\ disk.fontFiles[fontName(weight)].ok

\* no requested weight has a font that loads
ZeroFontsLoaded == \A i \in DOMAIN weights : ~LoadSucceeds(weights[i])

\* the option --fonts-dir is the empty string
FontsDirEmpty == flags.fontsDir = ""

\* the output directory cannot be created
OutputBlocked == disk.outputIsFile

Exited == pc = "exited"

----------------------------------------------------------------------------
\* any of the conditions that end a run with an error
FatalCondition ==
  \/ NoVersionsDetected \/ DataFilesMissing \/ ZeroFontsLoaded
  \/ FontsDirEmpty \/ OutputBlocked

\* the glyph has an outline of positive width and height
Renderable(glyph) ==
  glyph.kind = "path" /\ glyph.x2 > glyph.x1 /\ glyph.y2 > glyph.y1

\* a file was written for the icon name in the weight
Written(name, weight) ==
  \E i \in DOMAIN writes :
    writes[i].name = name /\ writes[i].weight = weight

(* C12: a per-item failure (a weight that fails to load, an icon name      *)
(* absent from the name list, a character absent from one font, a glyph    *)
(* without renderable geometry, an exception while rendering one glyph)    *)
(* never aborts the run: every remaining (icon, weight) pair is still      *)
(* processed, only the failing pair produces no file, and the run ends     *)
(* successfully.  Stated for the runs in which some font loads and no      *)
(* fatal condition holds.                                                  *)
(* Violated by the code: a glyph whose outline has no width or no height   *)
(* gets a file.                                                            *)
C12_PerItemFailuresIsolated ==
  (Exited /\ ~FatalCondition) =>
    /\ exitCode = 0
    /\ \A i \in DOMAIN names, j \in DOMAIN validFonts :
         i <= Len(symbolsData) =>
           (Written(names[i], validFonts[j].weight)
              <=> Renderable(validFonts[j].font[symbolsData[i]]))

----------------------------------------------------------------------------
\* the positions of the run from the await of Promise.all on
LoadsIssued ==
  pc \in {"await", "read", "filter", "mkdir", "generate", "done"}
     \/ thrown \in {"fonts", "mkdir"}
\* the positions of the run after the await of Promise.all
LoadsAwaited ==
  pc \in {"read", "filter", "mkdir", "generate", "done"}
     \/ thrown \in {"fonts", "mkdir"}

(* C13: one font load is issued per requested weight, and symbol           *)
(* generation (the first glyph render or file write) never begins before   *)
(* every load has settled; the active weight set is exactly the requested  *)
(* weights whose load succeeded, in request order, and a failed load is    *)
(* fatal only when no load succeeded.                                      *)
C13_LoadsSettleBeforeGeneration ==
  /\ LoadsIssued => Len(fonts) = Len(weights)
  /\ (lastCall.made \/ writes # <<>>) =>
       \A i \in DOMAIN fonts : fonts[i].state = "fulfilled"
  /\ LoadsAwaited =>
       [i \in DOMAIN validFonts |-> validFonts[i].weight]
         = SelectSeq(weights, LoadSucceeds)
  /\ thrown = "fonts" => ZeroFontsLoaded

\* a glyph was rendered after one of two requested weights failed to load
C13_Witness ==
  /\ lastCall.made
  /\ Len(weights) = 2
  /\ \E i \in DOMAIN fonts : fonts[i].value = Null
  /\ Len(validFonts) = 1

----------------------------------------------------------------------------
\* the positions of the run after the icons list filter
Filtered ==
  pc \in {"mkdir", "generate", "done"}
     \/ (pc \in {"rejected", "exited"} /\ thrown \in {"", "mkdir"})

\* an icons list file is given and can be read
FilterGiven == flags.iconsList /\ disk.iconsList.readable

\* the names of the icons list file that names.txt has
MatchedNames == Range(disk.iconsList.lines) \cap Range(disk.names)

(* C14: when an icon filter list is given and at least one of its names is *)
(* in the name list, the icons processed are exactly the filter names that *)
(* occur in the name list: no icon outside the filter produces a file, and *)
(* a filter name not in the name list is skipped without affecting the     *)
(* others.                                                                 *)
C14_FilterSelectsMatchedNames ==
  (Filtered /\ FilterGiven /\ MatchedNames # {}) =>
    /\ Range(names) = MatchedNames
    /\ \A i \in DOMAIN writes : writes[i].name \in MatchedNames

\* a run with the list c, z ended after writing a file for c
C14_Witness ==
  /\ Exited
  /\ exitCode = 0
  /\ FilterGiven
  /\ disk.iconsList.lines = <<IconC, IconZ>>
  /\ Written(IconC, Regular)

(* C15: when the icon filter list is empty or none of its names occurs in  *)
(* the name list, the run processes the complete unfiltered name list and  *)
(* codepoint list (both left unchanged) instead of producing an empty run. *)
C15_UnmatchedFilterFallsBack ==
  (Filtered /\ FilterGiven /\ MatchedNames = {}) =>
    /\ names = disk.names
    /\ symbolsData = disk.symbols

\* a run with the list z ended after writing a file for a
C15_Witness ==
  /\ Exited
  /\ FilterGiven
  /\ disk.iconsList.lines = <<IconZ>>
  /\ Written(IconA, Regular)

----------------------------------------------------------------------------
\* the weights of the run are set
WeightsRead == pc # "cli"

(* C16, as stated: for every list of weight flag values that contains the  *)
(* value "all", the run uses the fixed list of nine weights (thin,         *)
(* ultraLight, light, regular, medium, semibold, bold, heavy, black) as    *)
(* its requested weights.                                                  *)
(* Violated: a list of two values, one of them "all", is used as given.    *)
C16_AllAmongWeights ==
  (WeightsRead /\ AllWeights \in Range(flags.weight)) =>
    weights = FONT_WEIGHTS

(* C16, amended: for every list of weight flag values that consists of the *)
(* single value "all", the run uses the fixed list of nine weights as its  *)
(* requested weights.                                                      *)
C16_AllAloneIsNineWeights ==
  (WeightsRead /\ flags.weight = <<AllWeights>>) =>
    /\ weights = FONT_WEIGHTS
    /\ Len(weights) = 9

\* the nine loads of a run with the single value "all" were issued
C16_Witness ==
  /\ flags.weight = <<AllWeights>>
  /\ Len(fonts) = 9
  /\ weights[2] = UltraLight

----------------------------------------------------------------------------
\* the version of the run is chosen
VersionSelected == pc \notin {"cli", "start"} /\ thrown # "versions"

\* a custom sources directory is given and no version is selected
CustomSourcesNoVersion ==
  flags.sourcesDir = "custom" /\ ~flags.sfVersion.defined

(* C17: when a custom sources directory is given and no version is         *)
(* selected explicitly, the version used for the run is the most recent    *)
(* version detected in that provided sources directory, whatever versions  *)
(* the tool's default sources directory contains.                          *)
(* Violated by the code: the version is the most recent one of the default *)
(* sources directory whenever that directory has a version.                *)
C17_CustomSourcesMostRecent ==
  (VersionSelected /\ CustomSourcesNoVersion) =>
    /\ version \in VersionDirs(disk.sources.custom)
    /\ version = detectAvailableVersions(disk.sources.custom).versions[1]

----------------------------------------------------------------------------
\* the run ended with code 0 and had an icons list file it could read
SucceededWithList == Exited /\ exitCode = 0 /\ FilterGiven

\* the file of the name and the weight exists and its root element has the
\* canvas as viewBox, width and height
HasCanvasFile(name, weight) ==
  /\ createSvgFilename(name, weight) \in DOMAIN files
  /\ files[createSvgFilename(name, weight)].viewBox
       = <<0, 0, fontSize, fontSize>>
  /\ files[createSvgFilename(name, weight)].width = fontSize
  /\ files[createSvgFilename(name, weight)].height = fontSize

\* the font of the weight loads and has an outline for the token that sits
\* at the index of the name in the lists
HasOutline(name, weight) ==
  /\ LoadSucceeds(weight)
  /\ indexOf(disk.names, name) < Len(disk.symbols)
  /\ disk.fontFiles[fontName(weight)]
       .font[disk.symbols[indexOf(disk.names, name) + 1]].kind = "path"

(* C18, as stated: after a successful run with an icon list, for every     *)
(* icon name in the list and every requested weight a file named by the    *)
(* filename rule exists in the output directory, and its root element has  *)
(* viewBox "0 0 size size" with width and height both equal to the         *)
(* requested size.                                                         *)
(* Violated: a name that the name list does not have, a weight whose font  *)
(* does not load and a character without a glyph leave no file.            *)
C18_FileForEveryListedPair ==
  SucceededWithList =>
    \A name \in Range(disk.iconsList.lines), i \in DOMAIN weights :
      HasCanvasFile(name, weights[i])

(* C18, amended: after a successful run with an icon list and a token list *)
(* as long as the name list, for every icon name in the list that the name *)
(* list has and every requested weight whose font loaded and has an        *)
(* outline for the icon, a file named by the filename rule exists in the   *)
(* output directory, and its root element has viewBox "0 0 size size" with *)
(* width and height both equal to the requested size.                      *)
C18_FileForEveryRenderedPair ==
  (SucceededWithList /\ Len(disk.symbols) = Len(disk.names)) =>
    \A name \in MatchedNames, i \in DOMAIN weights :
      HasOutline(name, weights[i]) => HasCanvasFile(name, weights[i])

\* a run with the list a, z and the weights regular and black, of which
\* black does not load, ended with the file of a in regular
C18_Witness ==
  /\ SucceededWithList
  /\ disk.iconsList.lines = <<IconA, IconZ>>
  /\ weights = <<Regular, Black>>
  /\ HasCanvasFile(IconA, Regular)
  /\ ~HasOutline(IconA, Black)

----------------------------------------------------------------------------
\* the token at the index of the name in the lists as read, "" when the
\* token list is too short
tokenOf(name) ==
  IF indexOf(disk.names, name) # -1
       /\ indexOf(disk.names, name) < Len(disk.symbols)
  THEN disk.symbols[indexOf(disk.names, name) + 1]
  ELSE ""

(* C19: index alignment survives filtering: for every name list,           *)
(* codepoint-token list and icon filter list, every icon that is rendered  *)
(* is rendered with the codepoint token that sits at that icon name's      *)
(* index in the original unfiltered lists, also when the token list is     *)
(* shorter than the name list.                                             *)
(* Violated by the code: a filter name without a token pushes nothing to   *)
(* filteredSymbols, and the tokens of the names after it move up.          *)
C19_AlignmentSurvivesFiltering ==
  (lastCall.made /\ lastCall.svgContent # Null) =>
    lastCall.svgContent.d = tokenOf(lastCall.name)

----------------------------------------------------------------------------
\* the run aborted because no versions are detected, the version directory
\* or the data files are missing, or zero fonts loaded
AbortedOnPrecondition ==
  thrown \in {"versions", "versionDir", "dataFiles", "fonts"}

(* C20: all fatal precondition checks precede every output side effect: in *)
(* any run that aborts because no versions are detected, the version       *)
(* directory or data files are missing, or zero fonts loaded, the output   *)
(* directory is never created and no SVG file is written.                  *)
C20_ChecksPrecedeOutput ==
  /\ AbortedOnPrecondition =>
       /\ ~outputCreated
       /\ DOMAIN files = {}
       /\ writes = <<>>
       /\ ~lastCall.made
  /\ (outputCreated \/ writes # <<>>) =>
       /\ ~detectAvailableVersions(disk.sources[UsedSources]).threw
       /\ ~DataFilesMissing
       /\ ~ZeroFontsLoaded

\* a run exited after all its fonts failed to load
C20_Witness ==
  /\ Exited
  /\ exitCode = 1
  /\ thrown = "fonts"
  /\ \A i \in DOMAIN fonts : fonts[i].value = Null
  /\ ~outputCreated

----------------------------------------------------------------------------
\* the digit that the character stands for
DigitOf(c) == CHOOSE d \in 0..9 : DigitsInOrder[d + 1] = c

RECURSIVE NumeralValue(_)
\* the number that a string of digits stands for, 0 for no digit
NumeralValue(part) ==
  IF part = <<>> THEN 0
  ELSE 10 * NumeralValue(SubSeq(part, 1, Len(part) - 1))
         + DigitOf(part[Len(part)])

\* the name has digits and dots only
Numeric(name) == \A i \in DOMAIN name : name[i] \in Digits \cup {"."}

\* the k-th dot-separated part of the name as a number, 0 when it is missing
Component(name, k) ==
  IF k <= Len(split(name)) THEN NumeralValue(split(name)[k]) ELSE 0

\* a is more recent than b: at the first part in which they differ, that of
\* a is the larger number
MoreRecent(a, b) ==
  \E k \in 1..Max2(Len(split(a)), Len(split(b))) :
    /\ Component(a, k) > Component(b, k)
    /\ \A j \in 1..(k - 1) : Component(a, j) = Component(b, j)

\* the place of the name in the list, 0 when it is not there
PlaceOf(list, name) ==
  IF \E i \in DOMAIN list : list[i] = name
  THEN CHOOSE i \in DOMAIN list : list[i] = name
  ELSE 0

\* name goes before other when the list has both
Precedes(list, name, other) ==
  (PlaceOf(list, name) # 0 /\ PlaceOf(list, other) # 0) =>
    PlaceOf(list, name) < PlaceOf(list, other)

\* detectAvailableVersions returned
VersionsDetected == pc \notin {"cli", "start"} /\ thrown # "versions"

(* C21: detectAvailableVersions returns the version directory names in     *)
(* descending order under component-wise numeric comparison of their       *)
(* dot-separated parts (missing parts count as 0, so "6.10" precedes "6.9" *)
(* and "6.1" precedes "6"), so that its first element, used as the         *)
(* default, is the most recent version.  The order is stated for the names *)
(* made of digits and dots.                                                *)
C21_VersionsDescending ==
  VersionsDetected =>
    /\ Range(availableVersions) = VersionDirs(disk.sources.default)
    /\ Len(availableVersions) = Cardinality(VersionDirs(disk.sources.default))
    /\ \A i, j \in DOMAIN availableVersions :
         (i < j /\ Numeric(availableVersions[i])
                /\ Numeric(availableVersions[j])) =>
           ~MoreRecent(availableVersions[j], availableVersions[i])
    /\ Precedes(availableVersions, V610, V69)
    /\ Precedes(availableVersions, V61, V6)
    /\ version = availableVersions[1]
    /\ \A w \in VersionDirs(disk.sources.default) :
         (Numeric(version) /\ Numeric(w)) => ~MoreRecent(w, version)

\* the folders 6, 6.9, 6.1 and 6.10, read in this order, were detected as
\* 6.10, 6.9, 6.1 and 6, and 6.10 is the version of the run
C21_Witness ==
  /\ VersionsDetected
  /\ disk.sources.default.items
       = <<Folder(V6), Folder(V69), Folder(V61), Folder(V610)>>
  /\ availableVersions = <<V610, V69, V61, V6>>
  /\ version = V610

====
